---- MODULE Spec2Model ----
(***************************************************************************)
(* Finite-field and elliptic-curve arithmetic of src/python/ecc.py:        *)
(* FieldElement, Point, the secp256k1 specialisation (S256Field,           *)
(* S256Point), Signature and PrivateKey.                                   *)
(*                                                                         *)
(* Python values are modelled as tagged records: a FieldElement is         *)
(* [tag |-> "FE", num, prime], None is [tag |-> "None"], and a raised      *)
(* exception is [tag |-> "Err", kind |-> <exception class>].               *)
(***************************************************************************)
EXTENDS Integers, Sequences, FiniteSets, TLC

(* ---------------------------------------------------------------------- *)
(* Bounds of the model                                                    *)
(* ---------------------------------------------------------------------- *)
MaxPrime == 12         \* field moduli are the primes up to MaxPrime
MaxExp == 12           \* exponents and integer coefficients in -MaxExp..MaxExp
MaxOps == 2            \* operations chained on one constructed element
MaxCurvePrime == 7     \* curves are taken over the primes up to MaxCurvePrime
MaxM == 20             \* scalars m in 0..MaxM
MaxN == 4              \* scalars n in 0..MaxN
MaxWire == 3           \* byte strings handed to parse have at most MaxWire bytes
MaxHash == 3           \* message hashes signed: 0..MaxHash, and two above N
MaxNonce == 4          \* accepted nonce candidates: 1..MaxNonce, and N - 1
MaxSig == 5            \* r and s of a signature handed to verify: 1..MaxSig, and N - 1

IsPrime(n) == n > 1 /\ \A d \in 2..(n - 1) : n % d # 0

Primes == {p \in 2..MaxPrime : IsPrime(p)}

CurvePrimes == {p \in 2..MaxCurvePrime : IsPrime(p)}

(* ---------------------------------------------------------------------- *)
(* Python values                                                          *)
(* ---------------------------------------------------------------------- *)
None == [tag |-> "None"]

Raise(kind) == [tag |-> "Err", kind |-> kind]

IsErr(v) == v.tag = "Err"

IsFE(v) == v.tag = "FE"

IsPoint(v) == v.tag = "Point"

(* builtin pow(base, n, m) for n >= 0: binary exponentiation *)
RECURSIVE ModPow(_, _, _)
ModPow(base, n, m) ==
    IF n = 0 THEN 1 % m
    ELSE IF n % 2 = 1 THEN (base * ModPow(base, n - 1, m)) % m
    ELSE LET h == ModPow(base, n \div 2, m) IN (h * h) % m

(* ---------------------------------------------------------------------- *)
(* class FieldElement                                                     *)
(* ---------------------------------------------------------------------- *)
FieldElement_init(num, prime) ==
    IF num >= prime \/ num < 0
    THEN Raise("ValueError")
    ELSE [tag |-> "FE", num |-> num, prime |-> prime]

FieldElement_eq(self, other) ==
    IF other = None THEN FALSE
    ELSE self.num = other.num /\ self.prime = other.prime

FieldElement_ne(self, other) ==
    IF other = None THEN FALSE
    ELSE ~FieldElement_eq(self, other)

FieldElement_add_nomod(self, other) ==
    IF other = None THEN Raise("ValueError")
    ELSE IF self.prime # other.prime THEN Raise("TypeError")
    ELSE FieldElement_init(self.num + other.num, self.prime)

FieldElement_add(self, other) ==
    IF other = None THEN Raise("ValueError")
    ELSE IF self.prime # other.prime THEN Raise("TypeError")
    ELSE FieldElement_init((self.num + other.num) % self.prime, self.prime)

FieldElement_sub(self, other) ==
    IF other = None THEN Raise("ValueError")
    ELSE IF self.prime # other.prime THEN Raise("TypeError")
    ELSE FieldElement_init((self.num - other.num) % self.prime, self.prime)

FieldElement_mul(self, other) ==
    IF other = None THEN Raise("ValueError")
    ELSE IF self.prime # other.prime THEN Raise("TypeError")
    ELSE FieldElement_init((self.num * other.num) % self.prime, self.prime)

FieldElement_rmul(self, coefficient) ==
    FieldElement_init((self.num * coefficient) % self.prime, self.prime)

FieldElement_pow_noreduce(self, exponent) ==
    LET n == IF exponent < 0 THEN -exponent ELSE exponent
    IN FieldElement_init(ModPow(self.num, n, self.prime), self.prime)

FieldElement_pow(self, exponent) ==
    LET n == exponent % (self.prime - 1)
    IN FieldElement_init(ModPow(self.num, n, self.prime), self.prime)

FieldElement_truediv_inv1(self, other) ==
    IF other = None THEN Raise("ValueError")
    ELSE IF self.prime # other.prime THEN Raise("TypeError")
    ELSE LET num == ModPow(other.num, self.prime - 1, self.prime)
         IN FieldElement_init((self.num * num) % self.prime, self.prime)

FieldElement_truediv(self, other) ==
    IF other = None THEN Raise("ValueError")
    ELSE IF self.prime # other.prime THEN Raise("TypeError")
    ELSE LET num == ModPow(other.num, self.prime - 2, self.prime)
         IN FieldElement_init((self.num * num) % self.prime, self.prime)

(* ---------------------------------------------------------------------- *)
(* class Point                                                            *)
(* ---------------------------------------------------------------------- *)
MkPoint(x, y, a, b) == [tag |-> "Point", x |-> x, y |-> y, a |-> a, b |-> b]

Point_init(x, y, a, b) ==
    IF x = None /\ y = None THEN MkPoint(x, y, a, b)
    ELSE IF FieldElement_ne(FieldElement_pow(y, 2),
                            FieldElement_add(
                                FieldElement_add(FieldElement_pow(x, 3),
                                                 FieldElement_mul(a, x)),
                                b))
    THEN Raise("ValueError")
    ELSE MkPoint(x, y, a, b)

(* x == y where either side may be None: None == None is True, and None    *)
(* against a FieldElement falls back to FieldElement.__eq__, which is False *)
Coord_eq(u, v) ==
    IF u = None THEN v = None ELSE FieldElement_eq(u, v)

Point_eq(self, other) ==
    /\ Coord_eq(self.x, other.x)
    /\ Coord_eq(self.y, other.y)
    /\ FieldElement_eq(self.a, other.a)
    /\ FieldElement_eq(self.b, other.b)

Point_ne(self, other) == ~Point_eq(self, other)

(* the chord formula with x = s**2 - 2 * self.x, as in the tangent case *)
Point_add_chord_tangentx(self, other) ==
    LET s == FieldElement_truediv(FieldElement_sub(other.y, self.y),
                                  FieldElement_sub(other.x, self.x))
        x == FieldElement_sub(FieldElement_pow(s, 2),
                              FieldElement_rmul(self.x, 2))
        y == FieldElement_sub(FieldElement_mul(s, FieldElement_sub(self.x, x)),
                              self.y)
    IN Point_init(x, y, self.a, self.b)

(* the chord through self and other, x1 # x2 *)
Point_add_chord(self, other) ==
    LET s == FieldElement_truediv(FieldElement_sub(other.y, self.y),
                                  FieldElement_sub(other.x, self.x))
        x == FieldElement_sub(FieldElement_sub(FieldElement_pow(s, 2), self.x),
                              other.x)
        y == FieldElement_sub(FieldElement_mul(s, FieldElement_sub(self.x, x)),
                              self.y)
    IN Point_init(x, y, self.a, self.b)

(* the tangent at self *)
Point_add_double(self) ==
    LET s == FieldElement_truediv(
                 FieldElement_add(
                     FieldElement_rmul(FieldElement_pow(self.x, 2), 3),
                     self.a),
                 FieldElement_rmul(self.y, 2))
        x == FieldElement_sub(FieldElement_pow(s, 2),
                              FieldElement_rmul(self.x, 2))
        y == FieldElement_sub(FieldElement_mul(s, FieldElement_sub(self.x, x)),
                              self.y)
    IN Point_init(x, y, self.a, self.b)

(* __add__ without the vertical-line case x1 == x2, y1 != y2 *)
Point_add_novertical(self, other) ==
    IF FieldElement_ne(self.a, other.a) \/ FieldElement_ne(self.b, other.b)
    THEN Raise("TypeError")
    ELSE IF self.x = None THEN other
    ELSE IF other.x = None THEN self
    ELSE IF FieldElement_ne(self.x, other.x)
    THEN Point_add_chord(self, other)
    ELSE IF Point_eq(self, other)
            /\ FieldElement_eq(self.y, FieldElement_rmul(self.x, 0))
    THEN Point_init(None, None, self.a, self.b)
    ELSE IF Point_eq(self, other)
    THEN Point_add_double(self)
    ELSE None

(* __add__ with the doubling case tested before the vertical tangent *)
Point_add_doublefirst(self, other) ==
    IF FieldElement_ne(self.a, other.a) \/ FieldElement_ne(self.b, other.b)
    THEN Raise("TypeError")
    ELSE IF self.x = None THEN other
    ELSE IF other.x = None THEN self
    ELSE IF FieldElement_eq(self.x, other.x) /\ FieldElement_ne(self.y, other.y)
    THEN Point_init(None, None, self.a, self.b)
    ELSE IF FieldElement_ne(self.x, other.x)
    THEN Point_add_chord(self, other)
    ELSE IF Point_eq(self, other)
    THEN Point_add_double(self)
    ELSE IF Point_eq(self, other)
            /\ FieldElement_eq(self.y, FieldElement_rmul(self.x, 0))
    THEN Point_init(None, None, self.a, self.b)
    ELSE None

Point_add(self, other) ==
    IF FieldElement_ne(self.a, other.a) \/ FieldElement_ne(self.b, other.b)
    THEN Raise("TypeError")
    ELSE IF self.x = None THEN other
    ELSE IF other.x = None THEN self
    ELSE IF FieldElement_eq(self.x, other.x) /\ FieldElement_ne(self.y, other.y)
    THEN Point_init(None, None, self.a, self.b)
    ELSE IF FieldElement_ne(self.x, other.x)
    THEN Point_add_chord(self, other)
    ELSE IF Point_eq(self, other)
            /\ FieldElement_eq(self.y, FieldElement_rmul(self.x, 0))
    THEN Point_init(None, None, self.a, self.b)
    ELSE IF Point_eq(self, other)
    THEN Point_add_double(self)
    ELSE None

(* lhs += rhs on points; None has no __add__ and no attribute a *)
Point_iadd(lhs, rhs) ==
    IF lhs = None THEN Raise("TypeError")
    ELSE IF rhs = None THEN Raise("AttributeError")
    ELSE Point_add(lhs, rhs)

(* the loop with the two += statements exchanged: current is doubled      *)
(* before it is added to result                                           *)
RECURSIVE Point_rmul_loop_doublefirst(_, _, _)
Point_rmul_loop_doublefirst(coef, current, result) ==
    IF coef = 0 THEN result
    ELSE LET c2 == Point_iadd(current, current)
         IN IF IsErr(c2) THEN c2
            ELSE LET r2 == IF coef % 2 = 1 THEN Point_iadd(result, c2)
                           ELSE result
                 IN IF IsErr(r2) THEN r2
                    ELSE Point_rmul_loop_doublefirst(coef \div 2, c2, r2)

(* the while loop of Point.__rmul__; an exception raised by either += ends *)
(* the loop                                                                *)
RECURSIVE Point_rmul_loop(_, _, _)
Point_rmul_loop(coef, current, result) ==
    IF coef = 0 THEN result
    ELSE LET r2 == IF coef % 2 = 1 THEN Point_iadd(result, current) ELSE result
         IN IF IsErr(r2) THEN r2
            ELSE LET c2 == Point_iadd(current, current)
                 IN IF IsErr(c2) THEN c2
                    ELSE Point_rmul_loop(coef \div 2, c2, r2)

Point_rmul(self, coefficient) ==
    Point_rmul_loop(coefficient, self,
                    Point_init(None, None, self.a, self.b))

(* ---------------------------------------------------------------------- *)
(* secp256k1 parameters.  The 256-bit parameters are scaled to one byte:  *)
(* as in the source, the curve is y^2 = x^3 + 7 over a field whose        *)
(* modulus P is 3 modulo 4, its group has prime order N < P, G generates  *)
(* it, and a coordinate, a hash and an HMAC digest fill CoordBytes bytes. *)
(* ---------------------------------------------------------------------- *)
P == 43

A == 0

B == 7

N == 31

CoordBytes == 1

(* int.to_bytes(length, 'big') *)
RECURSIVE BigEndian(_, _)
BigEndian(n, length) ==
    IF length = 0 THEN <<>>
    ELSE Append(BigEndian(n \div 256, length - 1), n % 256)

int_to_bytes(n, length) ==
    IF n < 0 \/ n >= 256 ^ length
    THEN Raise("OverflowError")
    ELSE [tag |-> "bytes", b |-> BigEndian(n, length)]

(* int.from_bytes(b, 'big') *)
RECURSIVE int_from_bytes(_)
int_from_bytes(b) ==
    IF b = <<>> THEN 0
    ELSE int_from_bytes(SubSeq(b, 1, Len(b) - 1)) * 256 + b[Len(b)]

(* the slice b[lo:hi] of Python, 0-based and clipped to the length of b *)
Slice(b, lo, hi) ==
    SubSeq(b, lo + 1, IF hi < Len(b) THEN hi ELSE Len(b))

IsBytes(v) == v.tag = "bytes"

(* ---------------------------------------------------------------------- *)
(* class S256Field                                                        *)
(* ---------------------------------------------------------------------- *)
S256Field_init(num) == FieldElement_init(num, P)

S256Field_sqrt(self) == FieldElement_pow(self, (P + 1) \div 4)

(* ---------------------------------------------------------------------- *)
(* class S256Point                                                        *)
(* ---------------------------------------------------------------------- *)
(* S256Point(x, y) with x, y field elements or None *)
S256Point_init(x, y) ==
    Point_init(x, y, S256Field_init(A), S256Field_init(B))

(* S256Point(x, y) with type(x) == int *)
S256Point_init_int(x, y) ==
    LET fx == S256Field_init(x)
        fy == S256Field_init(y)
    IN IF IsErr(fx) THEN fx
       ELSE IF IsErr(fy) THEN fy
       ELSE Point_init(fx, fy, S256Field_init(A), S256Field_init(B))

G == S256Point_init_int(2, 12)

S256Point_rmul(self, coefficient) ==
    Point_rmul(self, coefficient % N)

S256Point_sec(self, compressed) ==
    IF self.x = None \/ self.y = None THEN Raise("AttributeError")
    ELSE IF compressed
    THEN IF self.y.num % 2 = 0
         THEN [tag |-> "bytes",
               b |-> <<2>> \o int_to_bytes(self.x.num, CoordBytes).b]
         ELSE [tag |-> "bytes",
               b |-> <<3>> \o int_to_bytes(self.x.num, CoordBytes).b]
    ELSE [tag |-> "bytes",
          b |-> <<4>> \o int_to_bytes(self.x.num, CoordBytes).b
                      \o int_to_bytes(self.y.num, CoordBytes).b]

(* the compressed branch with is_even = (prefix == 3) *)
S256Point_parse_compressed_swapped(sec_bin) ==
    LET is_even == sec_bin[1] = 3
        x == S256Field_init(int_from_bytes(Slice(sec_bin, 1, Len(sec_bin))))
    IN IF IsErr(x) THEN x
       ELSE LET alpha == FieldElement_add(FieldElement_pow(x, 3),
                                          S256Field_init(B))
                beta == S256Field_sqrt(alpha)
                other == S256Field_init(P - beta.num)
                even_beta == IF beta.num % 2 = 0 THEN beta ELSE other
                odd_beta == IF beta.num % 2 = 0 THEN other ELSE beta
            IN IF IsErr(other) THEN other
               ELSE IF is_even THEN S256Point_init(x, even_beta)
               ELSE S256Point_init(x, odd_beta)

(* the compressed branch of parse: x, then y of the wanted parity *)
S256Point_parse_compressed(sec_bin) ==
    LET is_even == sec_bin[1] = 2
        x == S256Field_init(int_from_bytes(Slice(sec_bin, 1, Len(sec_bin))))
    IN IF IsErr(x) THEN x
       ELSE LET alpha == FieldElement_add(FieldElement_pow(x, 3),
                                          S256Field_init(B))
                beta == S256Field_sqrt(alpha)
                other == S256Field_init(P - beta.num)
                even_beta == IF beta.num % 2 = 0 THEN beta ELSE other
                odd_beta == IF beta.num % 2 = 0 THEN other ELSE beta
            IN IF IsErr(other) THEN other
               ELSE IF is_even THEN S256Point_init(x, even_beta)
               ELSE S256Point_init(x, odd_beta)

S256Point_parse(sec_bin) ==
    IF sec_bin = <<>> THEN Raise("IndexError")
    ELSE IF sec_bin[1] = 4
    THEN S256Point_init_int(
             int_from_bytes(Slice(sec_bin, 1, 1 + CoordBytes)),
             int_from_bytes(Slice(sec_bin, 1 + CoordBytes, 1 + 2 * CoordBytes)))
    ELSE S256Point_parse_compressed(sec_bin)

(* ---------------------------------------------------------------------- *)
(* class Signature, class PrivateKey and S256Point.verify                 *)
(* ---------------------------------------------------------------------- *)
Signature_init(r, s) == [tag |-> "Signature", r |-> r, s |-> s]

IsSignature(v) == v.tag = "Signature"

PyBool(v) == [tag |-> "bool", v |-> v]

PyInt(v) == [tag |-> "int", v |-> v]

(* verify with u and v exchanged: total = v * G + u * self *)
S256Point_verify_swapped(self, z, sig) ==
    LET s_inv == ModPow(sig.s, N - 2, N)
        u == (z * s_inv) % N
        v == (sig.r * s_inv) % N
        total == Point_add(S256Point_rmul(G, v), S256Point_rmul(self, u))
    IN IF IsErr(total) THEN total
       ELSE IF total.x = None THEN Raise("AttributeError")
       ELSE PyBool(total.x.num = sig.r)

S256Point_verify(self, z, sig) ==
    LET s_inv == ModPow(sig.s, N - 2, N)
        u == (z * s_inv) % N
        v == (sig.r * s_inv) % N
        total == Point_add(S256Point_rmul(G, u), S256Point_rmul(self, v))
    IN IF IsErr(total) THEN total
       ELSE IF total.x = None THEN Raise("AttributeError")
       ELSE PyBool(total.x.num = sig.r)

PrivateKey_init(secret) ==
    [tag |-> "PrivateKey", secret |-> secret,
     point |-> S256Point_rmul(G, secret)]

(* the loop accepting a candidate up to and including N *)
RECURSIVE deterministic_k_loop_uptoN(_, _)
deterministic_k_loop_uptoN(digests, i) ==
    LET candidate == digests[i]
    IN IF candidate >= 1 /\ candidate <= N
       THEN candidate
       ELSE deterministic_k_loop_uptoN(digests, i + 1)

(* the while loop of deterministic_k: digests[i] is the integer read from *)
(* the HMAC digest v in the i-th pass                                     *)
RECURSIVE deterministic_k_loop(_, _)
deterministic_k_loop(digests, i) ==
    LET candidate == digests[i]
    IN IF candidate >= 1 /\ candidate < N
       THEN candidate
       ELSE deterministic_k_loop(digests, i + 1)

PrivateKey_deterministic_k(self, z, digests) ==
    LET z1 == IF z > N THEN z - N ELSE z
        z_bytes == int_to_bytes(z1, CoordBytes)
        secret_bytes == int_to_bytes(self.secret, CoordBytes)
    IN IF IsErr(z_bytes) THEN z_bytes
       ELSE IF IsErr(secret_bytes) THEN secret_bytes
       ELSE PyInt(deterministic_k_loop(digests, 1))

(* the number of bits of n > 0 *)
RECURSIVE BitLength(_)
BitLength(n) == IF n = 0 THEN 0 ELSE 1 + BitLength(n \div 2)

(* a float carries FloatBits significant bits: 53 in CPython against the  *)
(* 256 bits of N, scaled with the curve to fewer bits than N has          *)
FloatBits == 2

(* N / 2 is the float nearest to the quotient (ties to even); the value   *)
(* returned is twice that float, n rounded to FloatBits significant bits  *)
TwiceHalfFloat(n) ==
    LET sh == BitLength(n) - FloatBits
        unit == 2 ^ sh
        q == n \div unit
        rem == n % unit
    IN IF sh <= 0 THEN n
       ELSE IF 2 * rem > unit \/ (2 * rem = unit /\ q % 2 = 1)
       THEN (q + 1) * unit
       ELSE q * unit

(* s > N/2 compares the integer s with the float N/2 exactly *)
PrivateKey_sign(self, z, digests) ==
    LET kk == PrivateKey_deterministic_k(self, z, digests)
    IN IF IsErr(kk) THEN kk
       ELSE LET k == kk.v
                kG == S256Point_rmul(G, k)
            IN IF kG.x = None THEN Raise("AttributeError")
               ELSE LET r == kG.x.num
                        k_inv == ModPow(k, N - 2, N)
                        s == ((z + r * self.secret) * k_inv) % N
                    IN Signature_init(r, IF 2 * s > TwiceHalfFloat(N)
                                         THEN N - s ELSE s)

(* ---------------------------------------------------------------------- *)
(* State of the field-arithmetic session                                  *)
(* ---------------------------------------------------------------------- *)
VARIABLES
    fprime,     \* modulus passed to the constructor
    fnum,       \* num passed to the constructor
    fother,     \* the right operand `other` (a FieldElement or None)
    fexp,       \* the integer used as exponent / coefficient
    fops,       \* names of the operations applied so far
    fvals,      \* fvals[i] is the value returned (or raised) by fops[i]
    cprime,     \* modulus of the field the curve is over
    ca,         \* curve coefficient a
    cb,         \* curve coefficient b
    pP,         \* point operands P, Q, R
    pQ,
    pR,
    pvals,      \* results of the additions made on P, Q, R so far
    sm,         \* scalar operands m, n
    sn,
    svals,      \* results of the scalar multiplications made so far
    spt,        \* the secp256k1 point to serialise (None: raw bytes are parsed)
    scomp,      \* the `compressed` argument of sec
    wire,       \* the SEC bytes: returned by sec, or handed to parse
    parsed,     \* what parse returned (or raised)
    secret,     \* the secret handed to PrivateKey
    zhash,      \* the message hash z that is signed
    digests,    \* the HMAC digests deterministic_k reads for (secret, zhash)
    key,        \* the PrivateKey
    nonce,      \* what deterministic_k returned (or raised) inside sign
    sig,        \* what sign returned (or raised)
    sig2,       \* what signing zhash a second time returned (or raised)
    vq,         \* verify is called on the public point vq * G ...
    vQ,
    vz,         \* ... with the message hash vz
    vres        \* what verify returned (or raised)

fvars == <<fprime, fnum, fother, fexp, fops, fvals>>

cvars == <<cprime, ca, cb, pP>>

pvars == <<pQ, pR, pvals>>

svars == <<sm, sn, svals>>

wvars == <<spt, scomp, wire, parsed>>

kvars == <<secret, zhash, digests, key, nonce, sig, sig2,
           vq, vQ, vz, vres>>

vars == <<fvars, cvars, pvars, svars, wvars, kvars>>

Unset == [tag |-> "Unset"]

(* the variables of a session that is not running *)
FIdle == /\ fprime = 2 /\ fnum = 0 /\ fother = None /\ fexp = 0
         /\ fops = <<>> /\ fvals = <<>>

CIdle == cprime = 2 /\ ca = None /\ cb = None /\ pP = None

PIdle == pQ = None /\ pR = None /\ pvals = <<>>

SIdle == sm = 0 /\ sn = 0 /\ svals = <<>>

WIdle == spt = None /\ scomp = FALSE /\ wire = Unset /\ parsed = Unset

KIdle == /\ secret = 0 /\ zhash = 0 /\ digests = <<>> /\ key = Unset
         /\ nonce = Unset /\ sig = Unset /\ sig2 = Unset
         /\ vq = 0 /\ vQ = Unset /\ vz = 0 /\ vres = Unset

Elements(p) == {FieldElement_init(n, p) : n \in 0..(p - 1)}

(* right operands: every element of the same field, one element of another *)
(* field, and None                                                         *)
Others(p) ==
    Elements(p) \cup {FieldElement_init(1, IF p = 2 THEN 3 ELSE 2), None}

FInit ==
    /\ fprime \in Primes
    /\ fnum \in -2..(fprime + 1)
    /\ fother \in Others(fprime)
    /\ fexp \in -MaxExp..MaxExp
    /\ fops = <<>>
    /\ fvals = <<>>
    /\ CIdle /\ PIdle /\ SIdle /\ WIdle /\ KIdle

FCur == fvals[Len(fvals)]

FReady == /\ Len(fops) >= 1
          /\ Len(fops) <= MaxOps
          /\ IsFE(FCur)

FApply(op, v) ==
    /\ fops' = Append(fops, op)
    /\ fvals' = Append(fvals, v)
    /\ UNCHANGED <<fprime, fnum, fother, fexp, cvars, pvars, svars, wvars, kvars>>

FConstruct ==
    /\ fops = <<>>
    /\ FApply("init", FieldElement_init(fnum, fprime))

FAdd == FReady /\ FApply("add", FieldElement_add(FCur, fother))

FSub == FReady /\ FApply("sub", FieldElement_sub(FCur, fother))

FMul == FReady /\ FApply("mul", FieldElement_mul(FCur, fother))

FRMul == FReady /\ FApply("rmul", FieldElement_rmul(FCur, fexp))

FPow == FReady /\ FApply("pow", FieldElement_pow(FCur, fexp))

FDiv == FReady /\ FApply("div", FieldElement_truediv(FCur, fother))

FNext == FConstruct \/ FAdd \/ FSub \/ FMul \/ FRMul \/ FPow \/ FDiv

SpecField == FInit /\ [][FNext]_vars

(* ---------------------------------------------------------------------- *)
(* Point addition session: P + Q, Q + P, (P + Q) + R, Q + R, P + (Q + R)  *)
(* ---------------------------------------------------------------------- *)
Infinity(a, b) == Point_init(None, None, a, b)

(* every point the constructor accepts on the curve (a, b) *)
PointsOn(p, a, b) ==
    {Infinity(a, b)} \cup
    {pt \in {Point_init(x, y, a, b) : x \in Elements(p), y \in Elements(p)} :
        IsPoint(pt)}

(* the identity of a different curve over the same field *)
OffCurve(p, a, b) ==
    Infinity(a, FieldElement_init((b.num + 1) % p, p))

(* the curve y^2 = x^3 + 7 over F_223 and the points the tests use on it *)
TestPrime == 223

TestPoints ==
    {Infinity(FieldElement_init(0, TestPrime), FieldElement_init(7, TestPrime))}
    \cup
    {Point_init(FieldElement_init(c[1], TestPrime),
                FieldElement_init(c[2], TestPrime),
                FieldElement_init(0, TestPrime),
                FieldElement_init(7, TestPrime)) :
        c \in {<<192, 105>>, <<17, 56>>, <<1, 193>>, <<170, 142>>,
               <<60, 139>>, <<220, 181>>, <<47, 71>>, <<215, 68>>,
               <<143, 98>>, <<76, 66>>}}

(* the points operands are drawn from: all points of every curve over a   *)
(* small field, and the test points over F_223                            *)
Operands(p, a, b) ==
    IF p = TestPrime THEN TestPoints ELSE PointsOn(p, a, b)

CurveInit ==
    /\ \/ /\ cprime \in CurvePrimes
          /\ ca \in Elements(cprime)
          /\ cb \in Elements(cprime)
       \/ /\ cprime = TestPrime
          /\ ca = FieldElement_init(0, TestPrime)
          /\ cb = FieldElement_init(7, TestPrime)
    /\ pP \in Operands(cprime, ca, cb)

PInit ==
    /\ CurveInit
    /\ pQ \in Operands(cprime, ca, cb) \cup {OffCurve(cprime, ca, cb)}
    /\ pR \in Operands(cprime, ca, cb)
    /\ pvals = <<>>
    /\ FIdle /\ SIdle /\ WIdle /\ KIdle

(* the k-th addition is next, none of the earlier ones having raised *)
PReady(k) ==
    /\ Len(pvals) = k - 1
    /\ \A i \in 1..(k - 1) : IsPoint(pvals[i])

PRecord(v) ==
    /\ pvals' = Append(pvals, v)
    /\ UNCHANGED <<fvars, cvars, pQ, pR, svars, wvars, kvars>>

AddPQ == PReady(1) /\ PRecord(Point_add(pP, pQ))

AddQP == PReady(2) /\ PRecord(Point_add(pQ, pP))

AddPQ_R == PReady(3) /\ PRecord(Point_add(pvals[1], pR))

AddQR == PReady(4) /\ PRecord(Point_add(pQ, pR))

AddP_QR == PReady(5) /\ PRecord(Point_add(pP, pvals[4]))

PNext == AddPQ \/ AddQP \/ AddPQ_R \/ AddQR \/ AddP_QR

SpecPoint == PInit /\ [][PNext]_vars

(* ---------------------------------------------------------------------- *)
(* Scalar multiplication session: m*P, n*P, (m+n)*P, m*P + n*P,           *)
(* (m+1)*P, m*P + P                                                       *)
(* ---------------------------------------------------------------------- *)
SInit ==
    /\ CurveInit
    /\ sm \in 0..MaxM
    /\ sn \in 0..MaxN
    /\ svals = <<>>
    /\ FIdle /\ PIdle /\ WIdle /\ KIdle

SReady(k) ==
    /\ Len(svals) = k - 1
    /\ \A i \in 1..(k - 1) : IsPoint(svals[i])

SRecord(v) ==
    /\ svals' = Append(svals, v)
    /\ UNCHANGED <<fvars, cvars, pvars, sm, sn, wvars, kvars>>

MulM == SReady(1) /\ SRecord(Point_rmul(pP, sm))

MulN == SReady(2) /\ SRecord(Point_rmul(pP, sn))

MulSum == SReady(3) /\ SRecord(Point_rmul(pP, sm + sn))

AddMN == SReady(4) /\ SRecord(Point_add(svals[1], svals[2]))

MulSucc == SReady(5) /\ SRecord(Point_rmul(pP, sm + 1))

AddMP == SReady(6) /\ SRecord(Point_add(svals[1], pP))

SNext == MulM \/ MulN \/ MulSum \/ AddMN \/ MulSucc \/ AddMP

SpecScalar == SInit /\ [][SNext]_vars

(* ---------------------------------------------------------------------- *)
(* SEC session: sec() of a point, parse() of bytes                        *)
(* ---------------------------------------------------------------------- *)
(* every S256Point: the points of the curve and the point at infinity *)
S256Points == PointsOn(P, S256Field_init(A), S256Field_init(B))

PrefixBytes == {0, 1, 2, 3, 4, 5, 255}

PayloadBytes == 0..(P + 1) \cup {255}

RECURSIVE Payloads(_)
Payloads(n) ==
    IF n = 0 THEN {<<>>}
    ELSE Payloads(n - 1) \cup
         {Append(b, c) : b \in {q \in Payloads(n - 1) : Len(q) = n - 1},
                         c \in PayloadBytes}

WireInputs ==
    {[tag |-> "bytes", b |-> <<>>]} \cup
    {[tag |-> "bytes", b |-> <<pre>> \o pay] :
        pre \in PrefixBytes, pay \in Payloads(MaxWire - 1)}

WInit ==
    /\ \/ /\ spt \in S256Points
          /\ scomp \in BOOLEAN
          /\ wire = Unset
       \/ /\ spt = None
          /\ scomp = FALSE
          /\ wire \in WireInputs
    /\ parsed = Unset
    /\ FIdle /\ CIdle /\ PIdle /\ SIdle /\ KIdle

Serialize ==
    /\ wire = Unset
    /\ wire' = S256Point_sec(spt, scomp)
    /\ UNCHANGED <<fvars, cvars, pvars, svars, kvars, spt, scomp, parsed>>

Parse ==
    /\ IsBytes(wire)
    /\ parsed = Unset
    /\ parsed' = S256Point_parse(wire.b)
    /\ UNCHANGED <<fvars, cvars, pvars, svars, kvars, spt, scomp, wire>>

WNext == Serialize \/ Parse

SpecSec == WInit /\ [][WNext]_vars

(* ---------------------------------------------------------------------- *)
(* Signing session: PrivateKey(secret), sign(z), verify                   *)
(* ---------------------------------------------------------------------- *)
SignHashes == 0..MaxHash \cup {N, N + 1}

VerifyHashes == 0..(N + MaxHash)

(* HMAC-SHA256 is not computed: the digests read for one (secret, z) are  *)
(* any fixed sequence, here one accepted candidate, possibly after one    *)
(* candidate outside [1, N)                                               *)
DigestSeqs ==
    {<<k>> : k \in 1..MaxNonce \cup {N - 1}} \cup
    {<<c, k>> : c \in {0, N, 256 ^ CoordBytes - 1}, k \in {1, N - 1}}

(* the secrets handed to PrivateKey: every secret of [1, N), and 0, a     *)
(* negative one, N, N + 1 and the first one that does not fit CoordBytes *)
Secrets == 1..(N - 1) \cup {-1, 0, N, N + 1, 256 ^ CoordBytes}

KInit ==
    /\ secret \in Secrets
    /\ zhash \in SignHashes
    /\ digests \in DigestSeqs
    /\ key = Unset /\ nonce = Unset /\ sig = Unset /\ sig2 = Unset
    /\ vq = 0 /\ vQ = Unset /\ vz = 0 /\ vres = Unset
    /\ FIdle /\ CIdle /\ PIdle /\ SIdle /\ WIdle

NewKey ==
    /\ key = Unset
    /\ key' = PrivateKey_init(secret)
    /\ UNCHANGED <<fvars, cvars, pvars, svars, wvars,
                   secret, zhash, digests, nonce, sig, sig2, vq, vQ, vz, vres>>

Sign ==
    /\ key # Unset
    /\ sig = Unset
    /\ nonce' = PrivateKey_deterministic_k(key, zhash, digests)
    /\ sig' = PrivateKey_sign(key, zhash, digests)
    /\ UNCHANGED <<fvars, cvars, pvars, svars, wvars,
                   secret, zhash, digests, key, sig2, vq, vQ, vz, vres>>

(* a second PrivateKey of the same secret signs the same hash *)
SignAgain ==
    /\ sig # Unset
    /\ sig2 = Unset
    /\ sig2' = PrivateKey_sign(PrivateKey_init(secret), zhash, digests)
    /\ UNCHANGED <<fvars, cvars, pvars, svars, wvars,
                   secret, zhash, digests, key, nonce, sig, vq, vQ, vz, vres>>

(* verify on the key's own public point, with any hash *)
VerifyOwn ==
    /\ IsSignature(sig)
    /\ sig2 # Unset
    /\ vres = Unset
    /\ \E z \in VerifyHashes :
          /\ vq' = secret % N
          /\ vQ' = key.point
          /\ vz' = z
          /\ vres' = S256Point_verify(key.point, z, sig)
    /\ UNCHANGED <<fvars, cvars, pvars, svars, wvars,
                   secret, zhash, digests, key, nonce, sig, sig2>>

(* verify on any public point q * G, with the hash that was signed *)
VerifyOther ==
    /\ IsSignature(sig)
    /\ sig2 # Unset
    /\ vres = Unset
    /\ \E q \in 0..(N - 1) :
          /\ vq' = q
          /\ vQ' = S256Point_rmul(G, q)
          /\ vz' = zhash
          /\ vres' = S256Point_verify(vQ', zhash, sig)
    /\ UNCHANGED <<fvars, cvars, pvars, svars, wvars,
                   secret, zhash, digests, key, nonce, sig, sig2>>

KNext == NewKey \/ Sign \/ SignAgain \/ VerifyOwn \/ VerifyOther

SpecSig == KInit /\ [][KNext]_vars

(* ---------------------------------------------------------------------- *)
(* Verification session: verify(z, Signature(r, s)) on any public point   *)
(* ---------------------------------------------------------------------- *)
SigValues == 1..MaxSig \cup {N - 1}

VInit ==
    /\ sig \in {Signature_init(r, s) : r \in SigValues, s \in SigValues}
    /\ secret = 0 /\ zhash = 0 /\ digests = <<>>
    /\ key = Unset /\ nonce = Unset /\ sig2 = Unset
    /\ vq = 0 /\ vQ = Unset /\ vz = 0 /\ vres = Unset
    /\ FIdle /\ CIdle /\ PIdle /\ SIdle /\ WIdle

(* verify on the public point q * G, every point of the curve being one *)
VerifyAny ==
    /\ vres = Unset
    /\ \E q \in 0..(N - 1), z \in SignHashes :
          /\ vq' = q
          /\ vQ' = S256Point_rmul(G, q)
          /\ vz' = z
          /\ vres' = S256Point_verify(vQ', z, sig)
    /\ UNCHANGED <<fvars, cvars, pvars, svars, wvars,
                   secret, zhash, digests, key, nonce, sig, sig2>>

VNext == VerifyAny

SpecVerify == VInit /\ [][VNext]_vars

(* ---------------------------------------------------------------------- *)
(* Field arithmetic: properties                                           *)
(* ---------------------------------------------------------------------- *)
SameField(v) == IsFE(v) /\ v.prime = fprime

InRange(v) == 0 <= v.num /\ v.num < v.prime

(* a^n mod p by n successive multiplications *)
RECURSIVE NaiveModPow(_, _, _)
NaiveModPow(a, n, p) ==
    IF n = 0 THEN 1 % p ELSE (a * NaiveModPow(a, n - 1, p)) % p

(* the multiplicative inverse of a nonzero residue a modulo p *)
InverseOf(a, p) == CHOOSE b \in 0..(p - 1) : (a * b) % p = 1

(* C1: every FieldElement has 0 <= num < prime: the constructor raises for *)
(* num < 0 or num >= prime and accepts every other num, and a + b, a - b,  *)
(* a * b, a / b, a ** e and c * a on elements of the same field return an  *)
(* element of that field with 0 <= num < prime.                            *)
C1_FieldRange ==
    \A i \in 1..Len(fops) :
        /\ IsFE(fvals[i]) => InRange(fvals[i])
        /\ fops[i] = "init" =>
              IF fnum < 0 \/ fnum >= fprime
              THEN fvals[i] = Raise("ValueError")
              ELSE fvals[i] = [tag |-> "FE", num |-> fnum, prime |-> fprime]
        /\ (fops[i] \in {"add", "sub", "mul", "div"} /\ SameField(fother)) =>
              SameField(fvals[i])
        /\ fops[i] \in {"pow", "rmul"} => SameField(fvals[i])

C1_Witness ==
    \E i \in 2..Len(fops) :
        /\ fops[i] = "add"
        /\ SameField(fother)
        /\ fvals[i - 1].num + fother.num >= fprime
        /\ SameField(fvals[i])

(* C2: for a, b of the same prime field, (a + b) - b = a, and              *)
(* (a * b) / b = a whenever b is not the zero element.                     *)
C2_AddSubMulDiv ==
    \A i \in 2..(Len(fops) - 1) :
        SameField(fother) =>
            /\ (fops[i] = "add" /\ fops[i + 1] = "sub") =>
                  fvals[i + 1] = fvals[i - 1]
            /\ (fops[i] = "mul" /\ fops[i + 1] = "div" /\ fother.num # 0) =>
                  fvals[i + 1] = fvals[i - 1]

C2_Witness ==
    /\ Len(fops) = 3
    /\ fops[2] = "mul" /\ fops[3] = "div"
    /\ SameField(fother) /\ fother.num > 1
    /\ fvals[1].num > 1
    /\ fvals[3] = fvals[1]

(* C3: dividing a field element by the zero element of the same field     *)
(* raises an error (DivisionUndefined) and never returns a field element.  *)
C3_DivByZeroRaises ==
    \A i \in 2..Len(fops) :
        (fops[i] = "div" /\ SameField(fother) /\ fother.num = 0) =>
            /\ IsErr(fvals[i])
            /\ ~IsFE(fvals[i])

(* C4: a ** e is a^(e mod (p-1)) mod p for every element a and signed e;   *)
(* for nonzero a and negative e it is the modular inverse of a raised to   *)
(* |e|, (a ** e) * (a ** -e) = 1, and a ** (p - 1) = 1 for nonzero a.      *)
C4_Pow ==
    \A i \in 2..Len(fops) :
        fops[i] = "pow" =>
            LET a == fvals[i - 1]
                p == a.prime
                r == fvals[i]
                one == [tag |-> "FE", num |-> 1, prime |-> p]
            IN /\ r = [tag |-> "FE", prime |-> p,
                       num |-> NaiveModPow(a.num, fexp % (p - 1), p)]
               /\ a.num # 0 =>
                     /\ FieldElement_mul(r, FieldElement_pow(a, -fexp)) = one
                     /\ fexp < 0 =>
                           r.num = NaiveModPow(InverseOf(a.num, p), -fexp, p)
                     /\ fexp = p - 1 => r = one

C4_Witness ==
    \E i \in 2..Len(fops) :
        /\ fops[i] = "pow"
        /\ fexp < 0
        /\ fvals[i - 1].num > 1
        /\ fvals[i].num > 1
        /\ fvals[i].num = NaiveModPow(InverseOf(fvals[i - 1].num, fprime), -fexp, fprime)

(* ---------------------------------------------------------------------- *)
(* Group law: properties                                                  *)
(* ---------------------------------------------------------------------- *)
(* u == v holds of two returned points; a raised exception equals nothing *)
PEq(u, v) == IsPoint(u) /\ IsPoint(v) /\ Point_eq(u, v)

O == Infinity(ca, cb)

SameCurve(pt) == IsPoint(pt) /\ pt.a = ca /\ pt.b = cb

(* q is -p: the same x and the negated y *)
IsNeg(q, p) ==
    /\ p.x # None /\ q.x # None
    /\ q.x = p.x
    /\ q.y = FieldElement_init((0 - p.y.num) % cprime, cprime)

(* the curve y^2 = x^3 + a*x + b over F_p is an elliptic curve: p > 3 and *)
(* 4a^3 + 27b^2 is not 0 modulo p                                         *)
NonSingular ==
    /\ cprime > 3
    /\ (4 * ca.num * ca.num * ca.num + 27 * cb.num * cb.num) % cprime # 0

IdentityLaws ==
    /\ (Len(pvals) >= 1 /\ pQ = O) => PEq(pvals[1], pP)
    /\ (Len(pvals) >= 2 /\ pQ = O) => PEq(pvals[2], pP)
    /\ (Len(pvals) >= 1 /\ IsNeg(pQ, pP)) => PEq(pvals[1], O)

(* C5 as stated: for every valid point P of any curve, P + O = P,         *)
(* O + P = P and P + (-P) = O.                                            *)
C5_Identity_AnyField == IdentityLaws

(* C5: over a prime field with an odd modulus, for every valid point P,   *)
(* P + O = P, O + P = P and P + (-P) = O, the case y = 0 (where -P = P)   *)
(* included.                                                              *)
C5_Identity == cprime % 2 = 1 => IdentityLaws

C5_Witness ==
    /\ Len(pvals) >= 1
    /\ cprime % 2 = 1
    /\ pP.x # None /\ pP.y.num = 0
    /\ pQ = pP /\ IsNeg(pQ, pP)
    /\ pvals[1] = O

Commutative == Len(pvals) >= 2 => PEq(pvals[1], pvals[2])

Associative == Len(pvals) >= 5 => PEq(pvals[3], pvals[5])

(* C6 as stated: for all points P, Q, R of one curve over a prime field,  *)
(* P + Q = Q + P and (P + Q) + R = P + (Q + R).                           *)
C6_CommAssoc_AnyCurve == SameCurve(pQ) => (Commutative /\ Associative)

(* C6: over a prime field with p > 3, addition of points of one curve     *)
(* returns a point and P + Q = Q + P; when moreover the curve is          *)
(* nonsingular (4a^3 + 27b^2 # 0 mod p), (P + Q) + R = P + (Q + R).       *)
C6_CommAssoc ==
    (SameCurve(pQ) /\ cprime > 3) =>
        /\ \A i \in 1..Len(pvals) : SameCurve(pvals[i])
        /\ Commutative
        /\ NonSingular => Associative

C6_Witness ==
    /\ Len(pvals) = 5
    /\ NonSingular
    /\ pP.x # None /\ pQ.x # None /\ pR.x # None
    /\ pP.x # pQ.x /\ pQ.x # pR.x /\ pP.x # pR.x
    /\ pvals[1].x # None /\ pvals[4].x # None
    /\ pvals[3].x # None
    /\ pvals[3] = pvals[5]

ScalarLaws ==
    /\ (Len(svals) >= 1 /\ sm = 0) => PEq(svals[1], O)
    /\ Len(svals) >= 4 => PEq(svals[3], svals[4])
    /\ Len(svals) >= 6 => PEq(svals[5], svals[6])
    /\ (Len(svals) >= 5 /\ cprime = TestPrime /\ sm + 1 = 21
        /\ pP.x # None /\ pP.x.num = 47 /\ pP.y.num = 71) => svals[5] = O

(* C7 as stated: for every point P and all m, n >= 0, 0*P = O,            *)
(* (m + 1)*P = m*P + P and (m + n)*P = m*P + n*P.                         *)
C7_ScalarMul_AnyField == ScalarLaws

(* C7: over a prime field with p > 3, for every point P and all           *)
(* m, n >= 0, the double-and-add products are points, 0*P = O,            *)
(* (m + 1)*P = m*P + P and (m + n)*P = m*P + n*P; on y^2 = x^3 + 7 over   *)
(* F_223, 21*(47,71) = O.                                                 *)
C7_ScalarMul ==
    cprime > 3 =>
        /\ \A i \in 1..Len(svals) : SameCurve(svals[i])
        /\ ScalarLaws

C7_Witness ==
    /\ Len(svals) = 6
    /\ cprime > 3
    /\ sm >= 5 /\ sn >= 3
    /\ svals[1].x # None /\ svals[2].x # None /\ svals[3].x # None
    /\ svals[3] = svals[4]
    /\ svals[5] = svals[6]

(* ---------------------------------------------------------------------- *)
(* SEC format: properties                                                 *)
(* ---------------------------------------------------------------------- *)
RoundTrip == (spt # None /\ parsed # Unset) => PEq(parsed, spt)

(* C8 as stated: for every secp256k1 point P, parse(P.sec(compressed)) = P *)
(* for both values of compressed.                                          *)
C8_RoundTrip_AnyPoint ==
    /\ (spt # None /\ wire # Unset) => IsBytes(wire)
    /\ RoundTrip

(* C8: for every secp256k1 point P other than the point at infinity,      *)
(* parse(P.sec(compressed)) = P for both values of compressed; the        *)
(* compressed form is the byte 0x02 when y is even and 0x03 when y is odd *)
(* followed by x, the uncompressed form is 0x04 followed by x and y, and  *)
(* parse returns the y whose parity the prefix names.                     *)
C8_RoundTrip ==
    (spt # None /\ spt.x # None) =>
        /\ wire # Unset =>
             /\ IsBytes(wire)
             /\ wire.b = IF scomp
                         THEN <<2 + (spt.y.num % 2)>>
                              \o BigEndian(spt.x.num, CoordBytes)
                         ELSE <<4>> \o BigEndian(spt.x.num, CoordBytes)
                                    \o BigEndian(spt.y.num, CoordBytes)
        /\ RoundTrip
        /\ (parsed # Unset /\ scomp) =>
             /\ IsPoint(parsed)
             /\ parsed.y.num % 2 = wire.b[1] - 2

C8_Witness ==
    /\ spt # None /\ spt.x # None
    /\ scomp
    /\ spt.y.num % 2 = 1
    /\ IsBytes(wire) /\ wire.b[1] = 3
    /\ parsed = spt

(* C9: parse raises an error (MalformedEncoding) for every input whose    *)
(* first byte is not 0x02, 0x03 or 0x04, and never returns a point for it. *)
C9_BadPrefixRejected ==
    (/\ spt = None
     /\ parsed # Unset
     /\ wire.b # <<>>
     /\ wire.b[1] \notin {2, 3, 4}) =>
        /\ IsErr(parsed)
        /\ ~IsPoint(parsed)

C11_SignatureCanonical ==
    (IsSignature(sig) /\ secret \in 1..(N - 1)) =>
        /\ sig.r \in 1..(N - 1)
        /\ sig.s \in 1..(N - 1)
        /\ 2 * sig.s <= N

(* C12: signing with a secret outside [1, N) (0, negative, or >= N)       *)
(* raises; no Signature is returned for such a secret.                    *)
C12_InvalidSecretRejected ==
    (sig # Unset /\ secret \notin 1..(N - 1)) =>
        /\ IsErr(sig)
        /\ ~IsSignature(sig)

(* the position of the first digest that is a candidate in [1, N) *)
FirstAccepted ==
    CHOOSE i \in 1..Len(digests) :
        /\ digests[i] \in 1..(N - 1)
        /\ \A j \in 1..(i - 1) : digests[j] \notin 1..(N - 1)

AddLeft(i) ==
    CASE i = 1 -> pP [] i = 2 -> pQ [] i = 3 -> pvals[1]
      [] i = 4 -> pQ [] i = 5 -> pP

AddRight(i) ==
    CASE i = 1 -> pQ [] i = 2 -> pP [] i = 3 -> pR
      [] i = 4 -> pR [] i = 5 -> pvals[4]

(* pt is the identity, or y^2 = x^3 + a*x + b holds modulo cprime *)
OnCurve(pt) ==
    /\ SameCurve(pt)
    /\ \/ pt.x = None /\ pt.y = None
       \/ /\ IsFE(pt.x) /\ IsFE(pt.y)
          /\ (pt.y.num * pt.y.num) % cprime =
                 (pt.x.num * pt.x.num * pt.x.num + ca.num * pt.x.num + cb.num)
                    % cprime

(* the cases of add whose condition holds of the operands u, v *)
AddCases(u, v) ==
    {c \in {"identity", "vertical", "chord", "vertical_tangent", "doubling"} :
        CASE c = "identity" -> u.x = None \/ v.x = None
          [] c = "vertical" ->
                u.x # None /\ v.x # None /\ u.x = v.x /\ u.y # v.y
          [] c = "chord" -> u.x # None /\ v.x # None /\ u.x # v.x
          [] c = "vertical_tangent" ->
                u.x # None /\ u = v /\ u.y.num = 0
          [] c = "doubling" -> u.x # None /\ u = v /\ u.y.num # 0}

(* the divisor of the slope in the chord and doubling cases *)
SlopeDivisor(c, u, v) ==
    IF c = "chord" THEN (v.x.num - u.x.num) % cprime
    ELSE (2 * u.y.num) % cprime

(* the point with slope numerator num over divisor den through u and v *)
ThirdPoint(num, den, u, v) ==
    LET sl == (num * InverseOf(den, cprime)) % cprime
        x3 == (sl * sl - u.x.num - v.x.num) % cprime
        y3 == (sl * (u.x.num - x3) - u.y.num) % cprime
    IN MkPoint(FieldElement_init(x3, cprime), FieldElement_init(y3, cprime),
               ca, cb)

(* what the case c prescribes for u + v *)
CaseResult(c, u, v) ==
    CASE c = "identity" -> IF u.x = None THEN v ELSE u
      [] c = "vertical" -> O
      [] c = "vertical_tangent" -> O
      [] c = "chord" ->
            ThirdPoint((v.y.num - u.y.num) % cprime,
                       SlopeDivisor(c, u, v), u, v)
      [] c = "doubling" ->
            ThirdPoint((3 * u.x.num * u.x.num + ca.num) % cprime,
                       SlopeDivisor(c, u, v), u, u)

(* the i-th addition, made on two points of the curve, falls in exactly   *)
(* one case, divides by a nonzero divisor if it divides at all, and       *)
(* returns what that case prescribes, a point of the curve                *)
AddByCases(i) ==
    LET u == AddLeft(i)
        v == AddRight(i)
    IN (OnCurve(u) /\ OnCurve(v)) =>
          /\ Cardinality(AddCases(u, v)) = 1
          /\ LET c == CHOOSE k \in AddCases(u, v) : TRUE
             IN /\ c \in {"chord", "doubling"} => SlopeDivisor(c, u, v) # 0
                /\ pvals[i] = CaseResult(c, u, v)
          /\ OnCurve(pvals[i])

(* C14 as stated: over any odd prime field, add on two points of one      *)
(* curve follows the case order identity, vertical line, chord, vertical  *)
(* tangent, doubling: exactly one case applies, no division has a zero    *)
(* divisor, and the result is the identity or a point of the curve.       *)
C14_CaseOrder_OddField ==
    cprime % 2 = 1 => \A i \in 1..Len(pvals) : AddByCases(i)

(* C14: over a prime field with p > 3, add on two points of one curve     *)
(* follows the case order identity, vertical line, chord, vertical        *)
(* tangent, doubling: exactly one case applies, no division has a zero    *)
(* divisor, and the result is what that case prescribes, the identity or  *)
(* a point satisfying y^2 = x^3 + a*x + b.                                *)
C14_CaseOrder ==
    cprime > 3 => \A i \in 1..Len(pvals) : AddByCases(i)

C14_Witness ==
    /\ cprime > 3
    /\ Len(pvals) = 5
    /\ \A i \in 1..5 : OnCurve(AddLeft(i)) /\ OnCurve(AddRight(i))
    /\ AddCases(pP, pQ) = {"doubling"}
    /\ AddCases(pvals[1], pR) = {"vertical"}
    /\ AddCases(pQ, pR) = {"chord"}
    /\ pvals[3] = O

(* u*G + v*public_point of verify is the point at infinity *)
TotalIsInfinity == (vz + sig.r * vq) % N = 0

(* C15: for every public point (x, y) on the curve, every hash z and      *)
(* every signature with r, s in [1, N), verify returns true or false      *)
(* without raising, and returns false when u*G + v*public_point is the    *)
(* point at infinity.                                                     *)
C15_VerifyTotal ==
    (/\ vres # Unset
     /\ vQ.x # None
     /\ sig.r \in 1..(N - 1) /\ sig.s \in 1..(N - 1)) =>
        /\ vres \in {PyBool(TRUE), PyBool(FALSE)}
        /\ TotalIsInfinity => vres = PyBool(FALSE)

====
